---- MODULE Spec2Model ----
(***************************************************************************)
(* PlanCommandRunner (server/events/plan_command_runner.go): one           *)
(* orchestrator instance running passes (Run) for pull requests.  A pass   *)
(* is runAutoplan (automatic trigger) or run (comment trigger).  The       *)
(* shared state is the lock table behind TryLock/UnlockByPull, the plan    *)
(* artifacts on disk, the persisted pull status, the combined commit       *)
(* statuses and the instance's mutex.  Every call on shared state is one   *)
(* step of a pass, so that passes interleave as goroutines do.             *)
(***************************************************************************)
EXTENDS Integers, Sequences, FiniteSets, TLC

\* ------------------------------------------------------------------ bounds
NumProjects == 2
NumPulls == 2
NumPasses == 3
MaxCmds == 2

Projects == 1..NumProjects
Pulls == 1..NumPulls
Passes == 1..NumPasses
NoPull == 0
NoPass == 0

\* the pull request a pass works on: pass 1 on pull 1, pass 2 on pull 2, ...
PullOf(p) == ((p - 1) % NumPulls) + 1

\* ------------------------------------------------------------- data model
Plan == "plan"
PolicyCheck == "policy_check"
Apply == "apply"
CommandNames == {Plan, PolicyCheck, Apply}

AutoTrigger == "auto"
CommentTrigger == "comment"

PendingCommitStatus == "pending"
FailedCommitStatus == "failed"
SuccessCommitStatus == "success"

ErroredPlanStatus == "errored_plan"
PlannedPlanStatus == "planned"
PlannedNoChangesPlanStatus == "planned_no_changes"
ErroredApplyStatus == "errored_apply"
AppliedPlanStatus == "applied"
Absent == "absent"

\* a command.ProjectContext: the command's kind, its project, and the two
\* per-project flags the runner reads
ProjectContext(kind, proj, par, am) ==
  [CommandName |-> kind, proj |-> proj, ParallelPlanEnabled |-> par, AutomergeEnabled |-> am]

\* a command.ProjectResult of a plan: which project, and whether it carries
\* an error, a failure reason, or neither
ProjectResult(proj, err, failure) == [proj |-> proj, Error |-> err, Failure |-> failure]

\* a command.Result
Result(prs, deleted) == [ProjectResults |-> prs, PlansDeleted |-> deleted]

\* a models.PullStatus: the projects it lists with their status; recorded is
\* FALSE for the zero value and for "no status stored" (nil)
ZeroPullStatus == [recorded |-> FALSE, Projects |-> [x \in Projects |-> Absent]]

\* one call on a collaborator, as a pass's log records it
Ev(ev, kind, st, n, m) == [ev |-> ev, kind |-> kind, st |-> st, n |-> n, m |-> m]
NoCount == 0 - 1

\* ----------------------------------------------------------- pure helpers
\* all sequences over S of length at most n
RECURSIVE SeqsUpTo(_, _)
SeqsUpTo(S, n) ==
  IF n = 0 THEN {<<>>}
  ELSE LET shorter == SeqsUpTo(S, n - 1)
       IN shorter \cup {Append(s, x) : s \in {t \in shorter : Len(t) = n - 1}, x \in S}

\* (mutant) a command of another kind is kept with the Plan commands
partitionPlan_KeepsOthers(cmds) == SelectSeq(cmds, LAMBDA c : c.CommandName # PolicyCheck)

\* partitionProjectCmds: Plan commands and PolicyCheck commands, each in input
\* order; a command of another kind is logged and dropped
partitionPlan(cmds) == SelectSeq(cmds, LAMBDA c : c.CommandName = Plan)
partitionPolicyCheck(cmds) == SelectSeq(cmds, LAMBDA c : c.CommandName = PolicyCheck)

\* (mutant) every non-empty list runs in parallel mode
isParallelEnabled_Always(projectCmds) == Len(projectCmds) > 0

\* isParallelEnabled
isParallelEnabled(projectCmds) ==
  Len(projectCmds) > 0 /\ projectCmds[1].ParallelPlanEnabled

\* AutoMerger.automergeEnabled: the pull's automerge policy, read off the
\* first command
automergeEnabled(projectCmds) ==
  Len(projectCmds) > 0 /\ projectCmds[1].AutomergeEnabled

\* command.Result.HasErrors: some project result carries an error or a failure
HasErrors(result) ==
  \E i \in DOMAIN result.ProjectResults :
    result.ProjectResults[i].Error \/ result.ProjectResults[i].Failure

\* models.PullStatus.StatusCount and len(pullStatus.Projects)
StatusCount(pullStatus, status) ==
  Cardinality({x \in Projects : pullStatus.Projects[x] = status})
NumStatusProjects(pullStatus) ==
  Cardinality({x \in Projects : pullStatus.Projects[x] # Absent})

\* (mutant) the Apply status is emitted even when plans are still unapplied
updateCommitStatus_AlwaysApply(pullStatus, commandName) ==
  LET total == NumStatusProjects(pullStatus)
      numErroredPlan == StatusCount(pullStatus, ErroredPlanStatus)
      numApplied == StatusCount(pullStatus, AppliedPlanStatus)
                      + StatusCount(pullStatus, PlannedNoChangesPlanStatus)
  IN IF commandName = Plan
     THEN <<Ev("status", Plan,
               IF numErroredPlan > 0 THEN FailedCommitStatus ELSE SuccessCommitStatus,
               total - numErroredPlan, total)>>
     ELSE <<Ev("status", commandName,
               IF StatusCount(pullStatus, ErroredApplyStatus) > 0
               THEN FailedCommitStatus ELSE SuccessCommitStatus,
               numApplied, total)>>

\* updateCommitStatus: the combined status updates (none or one) it emits for
\* commandName from a pull status
updateCommitStatus(pullStatus, commandName) ==
  LET total == NumStatusProjects(pullStatus)
  IN IF commandName = Plan
     THEN LET numErrored == StatusCount(pullStatus, ErroredPlanStatus)
              numSuccess == total - numErrored
          IN <<Ev("status", Plan,
                  IF numErrored > 0 THEN FailedCommitStatus ELSE SuccessCommitStatus,
                  numSuccess, total)>>
     ELSE IF commandName = Apply
     THEN LET numSuccess == StatusCount(pullStatus, AppliedPlanStatus)
                              + StatusCount(pullStatus, PlannedNoChangesPlanStatus)
              numErrored == StatusCount(pullStatus, ErroredApplyStatus)
          IN IF numErrored > 0
             THEN <<Ev("status", Apply, FailedCommitStatus, numSuccess, total)>>
             ELSE IF numSuccess < total
             THEN <<>>
             ELSE <<Ev("status", Apply, SuccessCommitStatus, numSuccess, total)>>
     ELSE <<Ev("status", commandName, SuccessCommitStatus, 0, total)>>

\* the three 0/0 success updates of a pass that found no project
ZeroZero(kind) == Ev("status", kind, SuccessCommitStatus, 0, 0)
\* (mutant) only the Plan status is set to 0/0
NoProjectStatuses_PlanOnly == <<ZeroZero(Plan)>>

\* the statuses of a pull with no project: success 0/0 for every kind
NoProjectStatuses == <<ZeroZero(Plan), ZeroZero(PolicyCheck), ZeroZero(Apply)>>

\* ------------------------------------------------- the runner's decisions
\* (mutant) a refusal with a reason is not counted as a failed attempt
lockAttemptFailed_ErrorOnly(lockResult) == lockResult.Error

\* a lock attempt counts as failed when it erred or returned a failure reason
lockAttemptFailed(lockResult) == lockResult.Error \/ lockResult.Failure

\* (mutant) the locking loop ranges over the PolicyCheck commands too
lockLoopCmds_Both(projectCmds, policyCheckCmds) == projectCmds \o policyCheckCmds

\* the commands the locking loop ranges over: the Plan commands
lockLoopCmds(projectCmds, policyCheckCmds) == projectCmds

\* the pass is aborted when some lock attempt failed
abortsOnLockFailure(projectResults) == Len(projectResults) > 0

\* (mutant) run discards the previous plans and locks when the comment names
\* one project, and not otherwise
discardsPrevious_Inverted(trigger, IsForSpecificProject) ==
  trigger = AutoTrigger \/ IsForSpecificProject

\* previous plans and locks are discarded: always by runAutoplan, by run
\* unless the comment names one project
discardsPrevious(trigger, IsForSpecificProject) ==
  trigger = AutoTrigger \/ ~IsForSpecificProject

\* (mutant) plans are deleted on any error, automerge or not
deletesPlansOnError_Always(projectCmds, result) == HasErrors(result)

\* plans are deleted when automerge is on and the result has errors
deletesPlansOnError(projectCmds, result) ==
  automergeEnabled(projectCmds) /\ HasErrors(result)

\* a failed updateDB ends run; runAutoplan logs it and goes on
continuesAfterWriteError(trigger) == trigger = AutoTrigger

\* the policy-check runner is called: runAutoplan asks for policy-check
\* commands, run asks for project results
runsPolicyCheck(trigger, policyCheckCmds, result) ==
  /\ IF trigger = AutoTrigger
     THEN Len(policyCheckCmds) > 0
     ELSE Len(result.ProjectResults) > 0
  /\ ~(HasErrors(result) \/ result.PlansDeleted)

\* (mutant) the statuses are silenced only when both flags are set
autoplanNoProjectStatuses_Both(noPlans, noProjects) ==
  IF ~(noPlans /\ noProjects) THEN NoProjectStatuses ELSE <<>>

\* runAutoplan with no Plan command: 0/0 for the three kinds unless silenced
autoplanNoProjectStatuses(noPlans, noProjects) ==
  IF ~(noPlans \/ noProjects) THEN NoProjectStatuses ELSE <<>>

\* (mutant) the Plan status is left as it was on a command-builder error
builderErrorCalls_NoStatus == <<Ev("updatePull", Plan, "error", 1, 0)>>

\* what a command-builder error leaves behind: Plan failed, one error result
\* handed to the pull updater
builderErrorCalls ==
  <<Ev("status", Plan, FailedCommitStatus, NoCount, NoCount),
    Ev("updatePull", Plan, "error", 1, 0)>>

\* -------------------------------------------------------- collaborators
\* ProjectLocker.TryLock on the lock table: granted when the project is free
\* or already held by the pull, refused with a reason when another pull holds it
TryLockGranted(lk, proj, pull) == lk[proj] \in {NoPull, pull}
TryLockTable(lk, proj, pull) ==
  IF TryLockGranted(lk, proj, pull) THEN [lk EXCEPT ![proj] = pull] ELSE lk

\* locking.Locker.UnlockByPull: every lock of the pull is released
UnlockByPull(lk, pull) == [x \in Projects |-> IF lk[x] = pull THEN NoPull ELSE lk[x]]

\* PendingPlanFinder.DeletePlans on the pull's directory
DeletePlans(pl, pull) == [pl EXCEPT ![pull] = {}]

\* the plan status a project result stands for in the stored pull status
PlanStatusOf(pr) == IF pr.Error \/ pr.Failure THEN ErroredPlanStatus ELSE PlannedPlanStatus

\* DBUpdater.updateDB, when the write succeeds: the results' projects take
\* their new status (a later result of the same project wins)
RECURSIVE WriteResults(_, _)
WriteResults(projs, prs) ==
  IF prs = <<>> THEN projs
  ELSE WriteResults([projs EXCEPT ![Head(prs).proj] = PlanStatusOf(Head(prs))], Tail(prs))
UpdatedPullStatus(old, prs) ==
  [recorded |-> TRUE, Projects |-> WriteResults(old.Projects, prs)]

\* CommitStatusUpdater: the last update of each kind is the pull's status
RECURSIVE Emitted(_, _)
Emitted(cs, evs) ==
  IF evs = <<>> THEN cs
  ELSE Emitted(IF Head(evs).ev = "status"
               THEN [cs EXCEPT ![Head(evs).kind] =
                       [st |-> Head(evs).st, n |-> Head(evs).n, m |-> Head(evs).m]]
               ELSE cs,
               Tail(evs))
NoCommitStatus == [st |-> "none", n |-> NoCount, m |-> NoCount]

\* ------------------------------------------------------------------ state
VARIABLES
  silenceVCSStatusNoPlans,     \* configuration of the instance
  silenceVCSStatusNoProjects,
  SilenceNoProjects,
  projectLocker,               \* whether a project locker is configured (non-nil)
  mtx,                         \* the pass inside the locking section, or NoPass
  locks,                       \* lock table: project -> holding pull, or NoPull
  plans,                       \* plan artifacts on disk: pull -> projects
  db,                          \* stored pull status: pull -> PullStatus
  commitStatus,                \* combined status: pull -> kind -> last update
  pass                         \* the passes: pass -> its locals and its position

config == <<silenceVCSStatusNoPlans, silenceVCSStatusNoProjects, SilenceNoProjects, projectLocker>>
shared == <<mtx, locks, plans, db, commitStatus>>
vars == <<config, shared, pass>>

\* the size of the parallel pool
parallelPoolSize == 2

NewPass(active, trigger, targeted, pullStatus) ==
  [pc |-> IF active THEN "start" ELSE "idle",
   trigger |-> trigger,
   IsForSpecificProject |-> targeted,
   cmds |-> <<>>,              \* what the command builder returned
   projectCmds |-> <<>>,
   policyCheckCmds |-> <<>>,
   i |-> 1,                    \* position of the locking loop
   projectResults |-> <<>>,    \* the failed lock attempts
   started |-> {},             \* planning operations begun (indexes of projectCmds)
   running |-> {},             \* planning operations in progress
   planned |-> <<>>,           \* results of the finished planning operations
   result |-> Result(<<>>, FALSE),
   pullStatus |-> ZeroPullStatus,
   ctxPullStatus |-> pullStatus,
   log |-> <<>>]

\* a lock table, the plans and the stored status that earlier passes left:
\* a pull that holds a project's lock has planned it
PlansUnder(lk) == [pl \in Pulls |-> {x \in Projects : lk[x] = pl}]
StatusUnder(lk) ==
  [pl \in Pulls |->
     [recorded |-> \E x \in Projects : lk[x] = pl,
      Projects |-> [x \in Projects |-> IF lk[x] = pl THEN PlannedPlanStatus ELSE Absent]]]

InitShared ==
  /\ mtx = NoPass
  /\ locks \in [Projects -> {NoPull} \cup Pulls]
  /\ plans = PlansUnder(locks)
  /\ db = StatusUnder(locks)
  /\ commitStatus = [pl \in Pulls |-> [k \in CommandNames |-> NoCommitStatus]]

\* one pass, of either trigger, under every configuration its trigger reads
\* (runAutoplan never reads SilenceNoProjects, run never reads
\* silenceVCSStatusNoPlans: the unread flag is left off)
Init ==
  /\ silenceVCSStatusNoPlans \in BOOLEAN
  /\ silenceVCSStatusNoProjects \in BOOLEAN
  /\ SilenceNoProjects \in BOOLEAN
  /\ projectLocker \in BOOLEAN
  /\ InitShared
  /\ \E trigger \in {AutoTrigger, CommentTrigger} :
       /\ trigger = AutoTrigger => ~SilenceNoProjects
       /\ trigger = CommentTrigger => ~silenceVCSStatusNoPlans
       /\ \E targeted \in (IF trigger = AutoTrigger THEN {FALSE} ELSE BOOLEAN) :
            pass = [p \in Passes |->
                      NewPass(p = 1, trigger, targeted, db[PullOf(p)])]

\* ---------------------------------------------------------------- inputs
\* what the command builder may return: an error, or a list of commands that
\* carry the same parallel and automerge flags
CmdList(ks, par, am) ==
  [j \in 1..Len(ks) |-> ProjectContext(ks[j][1], ks[j][2], par, am)]
\* the runner reads the project of a Plan command only: the other commands
\* are all given project 1
BuiltCommands ==
  {<<Plan, x>> : x \in Projects} \cup {<<PolicyCheck, 1>>, <<Apply, 1>>}
BuilderOutputs ==
  {[err |-> TRUE, cmds |-> <<>>]} \cup
  {[err |-> FALSE, cmds |-> CmdList(ks, par, am)] :
     ks \in SeqsUpTo(BuiltCommands, MaxCmds), par \in BOOLEAN, am \in BOOLEAN}

\* every behaviour of the collaborators
AnyEnv ==
  [builds |-> BuilderOutputs,
   lockErr |-> BOOLEAN,         \* TryLock returns an error
   planErr |-> BOOLEAN,         \* the planning operation fails
   dbErr |-> BOOLEAN,           \* updateDB returns an error
   getErr |-> BOOLEAN]          \* GetPullStatus returns an error

\* ---------------------------------------------------------------- actions
Logged(me, evs) == me.log \o evs
EmitAll(pull, evs) == commitStatus' = [commitStatus EXCEPT ![pull] = Emitted(@, evs)]

\* (mutant) autoplan sets the Plan status to pending before it builds
AutoBuild_PendingFirst(p, E) ==
  LET me == pass[p]
      pull == PullOf(p)
  IN /\ me.pc = "start"
     /\ me.trigger = AutoTrigger
     /\ \E out \in E.builds :
          LET projectCmds == partitionPlan(out.cmds)
              policyCheckCmds == partitionPolicyCheck(out.cmds)
              evs == IF out.err
                     THEN <<Ev("build", Plan, "error", 0, 0)>> \o builderErrorCalls
                     ELSE IF Len(projectCmds) = 0
                     THEN <<Ev("build", Plan, "ok", Len(out.cmds), 0)>> \o
                          autoplanNoProjectStatuses(silenceVCSStatusNoPlans,
                                                    silenceVCSStatusNoProjects)
                     ELSE <<Ev("status", Plan, PendingCommitStatus, NoCount, NoCount),
                            Ev("build", Plan, "ok", Len(out.cmds), 0)>>
          IN /\ pass' = [pass EXCEPT ![p] =
                  [me EXCEPT !.pc = IF out.err \/ Len(projectCmds) = 0
                                    THEN "done" ELSE "deletePlans",
                             !.cmds = out.cmds,
                             !.projectCmds = IF out.err THEN <<>> ELSE projectCmds,
                             !.policyCheckCmds = IF out.err THEN <<>> ELSE policyCheckCmds,
                             !.log = Logged(me, evs)]]
             /\ EmitAll(pull, evs)
     /\ UNCHANGED <<config, mtx, locks, plans, db>>

\* runAutoplan up to the pending status: build, partition, and the
\* no-project return
AutoBuild(p, E) ==
  LET me == pass[p]
      pull == PullOf(p)
  IN /\ me.pc = "start"
     /\ me.trigger = AutoTrigger
     /\ \E out \in E.builds :
          LET projectCmds == partitionPlan(out.cmds)
              policyCheckCmds == partitionPolicyCheck(out.cmds)
              evs == IF out.err
                     THEN <<Ev("build", Plan, "error", 0, 0)>> \o builderErrorCalls
                     ELSE IF Len(projectCmds) = 0
                     THEN <<Ev("build", Plan, "ok", Len(out.cmds), 0)>> \o
                          autoplanNoProjectStatuses(silenceVCSStatusNoPlans,
                                                    silenceVCSStatusNoProjects)
                     ELSE <<Ev("build", Plan, "ok", Len(out.cmds), 0),
                            Ev("status", Plan, PendingCommitStatus, NoCount, NoCount)>>
          IN /\ pass' = [pass EXCEPT ![p] =
                  [me EXCEPT !.pc = IF out.err \/ Len(projectCmds) = 0
                                    THEN "done" ELSE "deletePlans",
                             !.cmds = out.cmds,
                             !.projectCmds = IF out.err THEN <<>> ELSE projectCmds,
                             !.policyCheckCmds = IF out.err THEN <<>> ELSE policyCheckCmds,
                             !.log = Logged(me, evs)]]
             /\ EmitAll(pull, evs)
     /\ UNCHANGED <<config, mtx, locks, plans, db>>

\* run: the Plan status is set to pending before anything is built
SetPending(p) ==
  LET me == pass[p]
      evs == <<Ev("status", Plan, PendingCommitStatus, NoCount, NoCount)>>
  IN /\ me.pc = "start"
     /\ me.trigger = CommentTrigger
     /\ pass' = [pass EXCEPT ![p] = [me EXCEPT !.pc = "build", !.log = Logged(me, evs)]]
     /\ EmitAll(PullOf(p), evs)
     /\ UNCHANGED <<config, mtx, locks, plans, db>>

\* run: build, the no-project return, partition
CommentBuild(p, E) ==
  LET me == pass[p]
      pull == PullOf(p)
  IN /\ me.pc = "build"
     /\ \E out \in E.builds, getErr \in E.getErr :
          LET noProjects == ~out.err /\ Len(out.cmds) = 0 /\ SilenceNoProjects
              reset == IF silenceVCSStatusNoProjects THEN <<>>
                       ELSE IF me.IsForSpecificProject
                       THEN IF getErr THEN <<Ev("getPullStatus", Plan, "error", 0, 0)>>
                            ELSE IF ~db[pull].recorded
                            THEN <<Ev("getPullStatus", Plan, "nil", 0, 0), ZeroZero(Plan)>>
                            ELSE <<Ev("getPullStatus", Plan, "ok", 0, 0)>> \o
                                 updateCommitStatus(db[pull], Plan)
                       ELSE NoProjectStatuses
              evs == IF out.err
                     THEN <<Ev("build", Plan, "error", 0, 0)>> \o builderErrorCalls
                     ELSE IF noProjects
                     THEN <<Ev("build", Plan, "ok", 0, 0)>> \o reset
                     ELSE <<Ev("build", Plan, "ok", Len(out.cmds), 0)>>
          IN /\ pass' = [pass EXCEPT ![p] =
                  [me EXCEPT !.pc = IF out.err \/ noProjects THEN "done"
                                    ELSE IF discardsPrevious(me.trigger, me.IsForSpecificProject)
                                    THEN "deletePlans" ELSE "mtxLock",
                             !.cmds = out.cmds,
                             !.projectCmds = IF out.err THEN <<>> ELSE partitionPlan(out.cmds),
                             !.policyCheckCmds =
                                IF out.err THEN <<>> ELSE partitionPolicyCheck(out.cmds),
                             !.log = Logged(me, evs)]]
             /\ EmitAll(pull, evs)
     /\ UNCHANGED <<config, mtx, locks, plans, db>>

\* the previous plans of the pull are deleted
DeletePrevious(p) ==
  LET me == pass[p]
  IN /\ me.pc = "deletePlans"
     /\ plans' = DeletePlans(plans, PullOf(p))
     /\ pass' = [pass EXCEPT ![p] =
          [me EXCEPT !.pc = "unlockByPull",
                     !.log = Logged(me, <<Ev("deletePlans", Plan, "previous", 0, 0)>>)]]
     /\ UNCHANGED <<config, mtx, locks, db, commitStatus>>

\* the previous locks of the pull are released (outside the mutex)
UnlockPrevious(p) ==
  LET me == pass[p]
  IN /\ me.pc = "unlockByPull"
     /\ locks' = UnlockByPull(locks, PullOf(p))
     /\ pass' = [pass EXCEPT ![p] =
          [me EXCEPT !.pc = "mtxLock",
                     !.log = Logged(me, <<Ev("unlockByPull", Plan, "previous", 0, 0)>>)]]
     /\ UNCHANGED <<config, mtx, plans, db, commitStatus>>

\* p.mtx.Lock(), or no locking at all when no project locker is configured
MtxLock(p) ==
  LET me == pass[p]
  IN /\ me.pc = "mtxLock"
     /\ projectLocker => mtx = NoPass
     /\ mtx' = IF projectLocker THEN p ELSE mtx
     /\ pass' = [pass EXCEPT ![p] =
          [me EXCEPT !.pc = IF projectLocker THEN "tryLock" ELSE "afterLock"]]
     /\ UNCHANGED <<config, locks, plans, db, commitStatus>>

\* one turn of the locking loop: TryLock for the next command
TryLock(p, E) ==
  LET me == pass[p]
      pull == PullOf(p)
      loop == lockLoopCmds(me.projectCmds, me.policyCheckCmds)
  IN /\ me.pc = "tryLock"
     /\ me.i <= Len(loop)
     /\ \E err \in E.lockErr :
          LET proj == loop[me.i].proj
              granted == ~err /\ TryLockGranted(locks, proj, pull)
              lockResult == ProjectResult(proj, err, ~err /\ ~granted)
              outcome == IF err THEN "error" ELSE IF granted THEN "acquired" ELSE "failure"
          IN /\ locks' = IF err THEN locks ELSE TryLockTable(locks, proj, pull)
             /\ pass' = [pass EXCEPT ![p] =
                  [me EXCEPT !.i = me.i + 1,
                             !.projectResults =
                                IF lockAttemptFailed(lockResult)
                                THEN Append(me.projectResults, lockResult)
                                ELSE me.projectResults,
                             !.log = Logged(me, <<Ev("tryLock", Plan, outcome, proj, me.i)>>)]]
     /\ UNCHANGED <<config, mtx, plans, db, commitStatus>>

\* p.mtx.Unlock() after the loop
MtxUnlock(p) ==
  LET me == pass[p]
  IN /\ me.pc = "tryLock"
     /\ me.i > Len(lockLoopCmds(me.projectCmds, me.policyCheckCmds))
     /\ mtx' = NoPass
     /\ pass' = [pass EXCEPT ![p] = [me EXCEPT !.pc = "afterLock"]]
     /\ UNCHANGED <<config, locks, plans, db, commitStatus>>

\* some lock attempt failed: the result is the failures and the pull's locks
\* are released; otherwise the plans run
AfterLock(p) ==
  LET me == pass[p]
      abort == abortsOnLockFailure(me.projectResults)
  IN /\ me.pc = "afterLock"
     /\ locks' = IF abort THEN UnlockByPull(locks, PullOf(p)) ELSE locks
     /\ pass' = [pass EXCEPT ![p] =
          [me EXCEPT !.pc = IF abort THEN "aggregate" ELSE "exec",
                     !.result = IF abort THEN Result(me.projectResults, FALSE) ELSE me.result,
                     !.log = IF abort
                             THEN Logged(me, <<Ev("unlockByPull", Plan, "abort", 0, 0)>>)
                             ELSE me.log]]
     /\ UNCHANGED <<config, mtx, plans, db, commitStatus>>

\* runProjectCmds / runProjectCmdsParallelGroups: a planning operation begins.
\* Sequential mode takes the commands one at a time in input order; parallel
\* mode runs up to parallelPoolSize of them at once
PlanStart(p) ==
  LET me == pass[p]
      todo == DOMAIN me.projectCmds \ me.started
  IN /\ me.pc = "exec"
     /\ \E j \in todo :
          /\ IF isParallelEnabled(me.projectCmds)
             THEN Cardinality(me.running) < parallelPoolSize
             ELSE me.running = {} /\ \A k \in todo : j <= k
          /\ pass' = [pass EXCEPT ![p] =
               [me EXCEPT !.started = me.started \cup {j},
                          !.running = me.running \cup {j},
                          !.log = Logged(me, <<Ev("planStart", Plan, "", me.projectCmds[j].proj, j)>>)]]
     /\ UNCHANGED <<config, shared>>

\* a planning operation ends: with a plan artifact, or with an error
PlanEnd(p, E) ==
  LET me == pass[p]
      pull == PullOf(p)
  IN /\ me.pc = "exec"
     /\ \E j \in me.running, err \in E.planErr :
          LET proj == me.projectCmds[j].proj
          IN /\ plans' = IF err THEN plans ELSE [plans EXCEPT ![pull] = @ \cup {proj}]
             /\ pass' = [pass EXCEPT ![p] =
                  [me EXCEPT !.running = me.running \ {j},
                             !.planned = Append(me.planned, ProjectResult(proj, err, FALSE)),
                             !.log = Logged(me, <<Ev("planEnd", Plan,
                                                     IF err THEN "error" ELSE "ok", proj, j)>>)]]
     /\ UNCHANGED <<config, mtx, locks, db, commitStatus>>

\* every planning operation has ended: their results are the pass's result
RunDone(p) ==
  LET me == pass[p]
  IN /\ me.pc = "exec"
     /\ me.started = DOMAIN me.projectCmds
     /\ me.running = {}
     /\ pass' = [pass EXCEPT ![p] =
          [me EXCEPT !.pc = "aggregate", !.result = Result(me.planned, FALSE)]]
     /\ UNCHANGED <<config, shared>>

\* the automerge cleanup, then the result goes to the pull updater
Aggregate(p) ==
  LET me == pass[p]
      cleanup == deletesPlansOnError(me.projectCmds, me.result)
      evs == (IF cleanup THEN <<Ev("deletePlans", Plan, "cleanup", 0, 0)>> ELSE <<>>) \o
             <<Ev("updatePull", Plan, "result", Len(me.result.ProjectResults), 0)>>
  IN /\ me.pc = "aggregate"
     /\ plans' = IF cleanup THEN DeletePlans(plans, PullOf(p)) ELSE plans
     /\ pass' = [pass EXCEPT ![p] =
          [me EXCEPT !.pc = "persist",
                     !.result = IF cleanup THEN Result(me.result.ProjectResults, TRUE)
                                ELSE me.result,
                     !.log = Logged(me, evs)]]
     /\ UNCHANGED <<config, mtx, locks, db, commitStatus>>

\* dbUpdater.updateDB: the write returns the new pull status, or fails and
\* returns the zero value
UpdateDB(p, E) ==
  LET me == pass[p]
      pull == PullOf(p)
  IN /\ me.pc = "persist"
     /\ \E err \in E.dbErr :
          LET written == UpdatedPullStatus(db[pull], me.result.ProjectResults)
          IN /\ db' = IF err THEN db ELSE [db EXCEPT ![pull] = written]
             /\ pass' = [pass EXCEPT ![p] =
                  [me EXCEPT !.pc = IF ~err \/ continuesAfterWriteError(me.trigger)
                                    THEN "report" ELSE "done",
                             !.pullStatus = IF err THEN ZeroPullStatus ELSE written,
                             !.log = Logged(me, <<Ev("updateDB", Plan,
                                                     IF err THEN "error" ELSE "ok", 0, 0)>>)]]
     /\ UNCHANGED <<config, mtx, locks, plans, commitStatus>>

\* updateCommitStatus for Plan, then for Apply
Report(p) ==
  LET me == pass[p]
      evs == updateCommitStatus(me.pullStatus, Plan) \o updateCommitStatus(me.pullStatus, Apply)
  IN /\ me.pc = "report"
     /\ pass' = [pass EXCEPT ![p] = [me EXCEPT !.pc = "dispatch", !.log = Logged(me, evs)]]
     /\ EmitAll(PullOf(p), evs)
     /\ UNCHANGED <<config, mtx, locks, plans, db>>

\* the end of the pass: the policy-check runner, or (run only) the 0/0
\* PolicyCheck status of a generic comment that planned nothing
Dispatch(p) ==
  LET me == pass[p]
      run == runsPolicyCheck(me.trigger, me.policyCheckCmds, me.result)
      refreshed == me.trigger = AutoTrigger
      evs == IF run
             THEN <<Ev("policyCheck", PolicyCheck, "", Len(me.policyCheckCmds), 0)>>
             ELSE IF /\ me.trigger = CommentTrigger
                     /\ Len(me.projectCmds) = 0
                     /\ ~me.IsForSpecificProject
             THEN <<ZeroZero(PolicyCheck)>>
             ELSE <<>>
  IN /\ me.pc = "dispatch"
     /\ pass' = [pass EXCEPT ![p] =
          [me EXCEPT !.pc = "done",
                     !.ctxPullStatus = IF run /\ refreshed THEN me.pullStatus
                                       ELSE me.ctxPullStatus,
                     !.log = Logged(me, evs)]]
     /\ EmitAll(PullOf(p), evs)
     /\ UNCHANGED <<config, mtx, locks, plans, db>>

\* ---------------------------------------------------------- specification
Step(p, E) ==
  \/ AutoBuild(p, E)
  \/ SetPending(p)
  \/ CommentBuild(p, E)
  \/ DeletePrevious(p)
  \/ UnlockPrevious(p)
  \/ MtxLock(p)
  \/ TryLock(p, E)
  \/ MtxUnlock(p)
  \/ AfterLock(p)
  \/ PlanStart(p)
  \/ PlanEnd(p, E)
  \/ RunDone(p)
  \/ Aggregate(p)
  \/ UpdateDB(p, E)
  \/ Report(p)
  \/ Dispatch(p)

Next == \E p \in Passes : Step(p, AnyEnv)

Spec == Init /\ [][Next]_vars

\* ------------------------------------------------------- reading the logs
Where(log, Is(_)) == {k \in DOMAIN log : Is(log[k])}
IsTryLock(e) == e.ev = "tryLock"
IsFailedTryLock(e) == e.ev = "tryLock" /\ e.st # "acquired"
IsPlanning(e) == e.ev \in {"planStart", "planEnd"}
IsUnlockByPull(e) == e.ev = "unlockByPull"
IsDeletePlans(e) == e.ev = "deletePlans"
IsCleanup(e) == e.ev = "deletePlans" /\ e.st = "cleanup"
IsUpdateDB(e) == e.ev = "updateDB"
IsPolicyCheck(e) == e.ev = "policyCheck"
IsStatus(e) == e.ev = "status"
IsPending(e) == e.ev = "status" /\ e.st = PendingCommitStatus
IsBuildError(e) == e.ev = "build" /\ e.st = "error"
IsBuildOk(e) == e.ev = "build" /\ e.st = "ok"
IsResultPosted(e) == e.ev = "updatePull" /\ e.st = "result"

\* the pass has its result (the locking phase and the execution are over)
HasResult(p) == pass[p].pc \in {"aggregate", "persist", "report", "dispatch"}
                   \/ (pass[p].pc = "done" /\ Where(pass[p].log, IsResultPosted) # {})
\* the pass is in the locking phase or past it
ReachedLocking(p) == pass[p].pc \in {"tryLock", "afterLock", "exec"} \/ HasResult(p)
NonTargeted(p) == pass[p].trigger = AutoTrigger \/ ~pass[p].IsForSpecificProject
NumKind(cmds, kinds) == Cardinality({k \in DOMAIN cmds : cmds[k].CommandName \in kinds})

\* C1: a pass in which some TryLock erred or returned a failure reason plans no
\* project, and its result is exactly the failed lock attempts, one project
\* result each, in the order of the attempts.
C1_AllOrNothing ==
  \A p \in Passes :
    LET log == pass[p].log
        failed == SelectSeq(log, IsFailedTryLock)
        prs == pass[p].result.ProjectResults
    IN Len(failed) > 0 =>
         /\ Where(log, IsPlanning) = {}
         /\ pass[p].started = {}
         /\ HasResult(p) =>
              /\ Len(prs) = Len(failed)
              /\ \A k \in DOMAIN prs :
                   /\ prs[k].proj = failed[k].n
                   /\ prs[k].Error <=> failed[k].st = "error"
                   /\ prs[k].Failure <=> failed[k].st = "failure"

\* C1 witness: a finished pass that acquired one lock, was refused another, and
\* whose result is the one refusal
C1_Witness ==
  \E p \in Passes :
    /\ pass[p].pc = "done"
    /\ \E a, b \in Where(pass[p].log, IsTryLock) :
         pass[p].log[a].st = "acquired" /\ pass[p].log[b].st = "failure"
    /\ Len(pass[p].result.ProjectResults) = 1

\* C3 (as claimed): a pass that has its plan result and has written it calls
\* the policy-check runner if and only if it has PolicyCheck commands, the
\* result has no errors and no plans were deleted; the runner never gets an
\* empty list.
C3_PolicyCheckIff ==
  \A p \in Passes :
    LET calls == Where(pass[p].log, IsPolicyCheck)
    IN /\ \A k \in calls : pass[p].log[k].n > 0
       /\ (/\ pass[p].pc = "done"
           /\ Where(pass[p].log, IsResultPosted) # {}
           /\ \A k \in Where(pass[p].log, IsUpdateDB) : pass[p].log[k].st = "ok") =>
            (calls # {} <=> /\ Len(pass[p].policyCheckCmds) > 0
                            /\ ~HasErrors(pass[p].result)
                            /\ ~pass[p].result.PlansDeleted)

\* C4 (as claimed): once the locking loop is over, TryLock was called as many
\* times as the builder returned Plan and PolicyCheck commands.
C4_LocksPlanAndPolicyCheck ==
  \A p \in Passes :
    (projectLocker /\ pass[p].pc = "afterLock") =>
      Cardinality(Where(pass[p].log, IsTryLock)) = NumKind(pass[p].cmds, {Plan, PolicyCheck})

\* C4 (amended): once the locking loop is over, TryLock was called once for
\* every Plan command the builder returned, in input order, whatever the
\* earlier attempts returned; PolicyCheck commands are not locked.
C4_LocksEveryPlan ==
  \A p \in Passes :
    (projectLocker /\ (pass[p].pc \in {"afterLock", "exec"} \/ HasResult(p))) =>
      LET tries == SelectSeq(pass[p].log, IsTryLock)
          wanted == SelectSeq(pass[p].cmds, LAMBDA c : c.CommandName = Plan)
      IN /\ Len(tries) = Len(wanted)
         /\ \A k \in DOMAIN tries : tries[k].n = wanted[k].proj /\ tries[k].m = k

\* C4 witness: the loop is over, the first of two attempts was refused and the
\* second was still made, and granted
C4_Witness ==
  \E p \in Passes :
    LET tries == SelectSeq(pass[p].log, IsTryLock)
    IN /\ projectLocker
       /\ pass[p].pc = "afterLock"
       /\ Len(tries) = 2
       /\ tries[1].st = "failure"
       /\ tries[2].st = "acquired"

\* C5: in a pass that is not for one specific project and has reached locking,
\* the previous plans were deleted and then UnlockByPull was called, both before
\* the first TryLock; a pass for one specific project has made neither call by
\* the end of its locking.
C5_ClearStaleFirst ==
  \A p \in Passes :
    LET log == pass[p].log
    IN IF NonTargeted(p)
       THEN ReachedLocking(p) =>
              \E a, b \in DOMAIN log :
                /\ a < b
                /\ IsDeletePlans(log[a]) /\ IsUnlockByPull(log[b])
                /\ \A k \in Where(log, IsTryLock) : b < k
       ELSE pass[p].pc \in {"mtxLock", "tryLock", "afterLock"} =>
              Where(log, IsDeletePlans) \cup Where(log, IsUnlockByPull) = {}

\* C5 witness: a generic comment pass in its locking loop, one TryLock made
C5_Witness ==
  \E p \in Passes :
    /\ pass[p].trigger = CommentTrigger
    /\ ~pass[p].IsForSpecificProject
    /\ pass[p].pc = "tryLock"
    /\ Where(pass[p].log, IsTryLock) # {}

\* C6: once the result is handed to the pull updater: with automerge on and
\* errors in the result the plans were deleted once as cleanup and PlansDeleted
\* is set; with automerge off, or with no errors, there was no cleanup and
\* PlansDeleted is not set.
C6_AutomergeCleanup ==
  \A p \in Passes :
    LET cleanups == Cardinality(Where(pass[p].log, IsCleanup))
        automerge == Len(pass[p].projectCmds) > 0 /\ pass[p].projectCmds[1].AutomergeEnabled
        errors == \E k \in DOMAIN pass[p].result.ProjectResults :
                     pass[p].result.ProjectResults[k].Error
                       \/ pass[p].result.ProjectResults[k].Failure
    IN /\ Where(pass[p].log, IsResultPosted) # {} =>
            IF automerge /\ errors
            THEN cleanups = 1 /\ pass[p].result.PlansDeleted
            ELSE cleanups = 0 /\ ~pass[p].result.PlansDeleted
       /\ Where(pass[p].log, IsResultPosted) = {} =>
            cleanups = 0 /\ ~pass[p].result.PlansDeleted

\* C6 witness: automerge on, a planning operation failed, the cleanup ran
C6_Witness ==
  \E p \in Passes :
    /\ pass[p].pc = "done"
    /\ pass[p].result.PlansDeleted
    /\ \E k \in DOMAIN pass[p].log : pass[p].log[k].ev = "planEnd" /\ pass[p].log[k].st = "error"
    /\ Cardinality(Where(pass[p].log, IsCleanup)) = 1

\* C7 (as claimed): with automerge on and errors in the result, at the moment
\* of the write (and of the status updates after it) the pull holds no project
\* lock and has no plan artifact.
C7_CleanupReleasesLocks ==
  \A p \in Passes :
    (/\ projectLocker
     /\ pass[p].pc \in {"persist", "report"}
     /\ Len(pass[p].projectCmds) > 0 /\ pass[p].projectCmds[1].AutomergeEnabled
     /\ HasErrors(pass[p].result)) =>
      /\ plans[PullOf(p)] = {}
      /\ \A x \in Projects : locks[x] # PullOf(p)

\* C8 (as claimed): after a failed updateDB the pass emits no Plan or Apply
\* status and does not call the policy-check runner.
C8_NothingAfterFailedWrite ==
  \A p \in Passes :
    \A k \in Where(pass[p].log, IsUpdateDB) :
      pass[p].log[k].st = "error" =>
        \A j \in DOMAIN pass[p].log :
          j > k => ~(IsStatus(pass[p].log[j]) \/ IsPolicyCheck(pass[p].log[j]))

\* C9: when the command builder returns an error, the pass sets the Plan
\* status to failed, hands one error result to the pull updater, and ends:
\* it makes no other call (no TryLock, UnlockByPull, plan deletion, planning
\* operation, write, policy check).
C9_BuilderErrorEndsPass ==
  \A p \in Passes :
    \A k \in Where(pass[p].log, IsBuildError) :
      LET log == pass[p].log
      IN /\ pass[p].pc = "done"
         /\ Len(log) = k + 2
         /\ log[k + 1] = Ev("status", Plan, FailedCommitStatus, NoCount, NoCount)
         /\ log[k + 2] = Ev("updatePull", Plan, "error", 1, 0)
         /\ \A j \in 1..(k - 1) : IsPending(log[j])
         /\ commitStatus[PullOf(p)][Plan].st = FailedCommitStatus

\* C9 witness: a comment pass ended by a builder error
C9_Witness ==
  \E p \in Passes :
    /\ pass[p].trigger = CommentTrigger
    /\ Where(pass[p].log, IsBuildError) # {}
    /\ locks = [x \in Projects |-> PullOf(p)]

\* C10: an automatic pass with no Plan command after partitioning ends having
\* emitted success 0/0 for Plan, PolicyCheck and Apply (in that order) when
\* neither silence flag is set, and nothing when either is; it made no other
\* call (no pending status, lock attempt, unlock, plan deletion, write).
C10_ZeroProjectAutoplan ==
  \A p \in Passes :
    (/\ pass[p].trigger = AutoTrigger
     /\ Where(pass[p].log, IsBuildOk) # {}
     /\ NumKind(pass[p].cmds, {Plan}) = 0) =>
      /\ pass[p].pc = "done"
      /\ pass[p].log =
           <<Ev("build", Plan, "ok", Len(pass[p].cmds), 0)>> \o
           (IF silenceVCSStatusNoPlans \/ silenceVCSStatusNoProjects
            THEN <<>>
            ELSE <<Ev("status", Plan, SuccessCommitStatus, 0, 0),
                   Ev("status", PolicyCheck, SuccessCommitStatus, 0, 0),
                   Ev("status", Apply, SuccessCommitStatus, 0, 0)>>)

\* C10 witness: the builder returned only a PolicyCheck command, one silence
\* flag is set, and the pass ended without a status
C10_Witness ==
  \E p \in Passes :
    /\ pass[p].trigger = AutoTrigger
    /\ pass[p].pc = "done"
    /\ Len(pass[p].cmds) = 1 /\ pass[p].cmds[1].CommandName = PolicyCheck
    /\ silenceVCSStatusNoProjects /\ ~silenceVCSStatusNoPlans
    /\ Where(pass[p].log, IsStatus) = {}

\* ------------------------------------------------------ overlapping passes
\* the collaborators of the overlapping passes: every pass plans project 1,
\* and no collaborator fails
OneProjectEnv ==
  [builds |-> {[err |-> FALSE, cmds |-> CmdList(<<<<Plan, 1>>>>, FALSE, FALSE)]},
   lockErr |-> {FALSE},
   planErr |-> {FALSE},
   dbErr |-> {FALSE},
   getErr |-> {FALSE}]

\* every pass is under way on a fresh instance with a project locker; the
\* passes are automatic, generic comments or comments for one project
InitConc ==
  /\ silenceVCSStatusNoPlans = FALSE
  /\ silenceVCSStatusNoProjects = FALSE
  /\ SilenceNoProjects = FALSE
  /\ projectLocker = TRUE
  /\ mtx = NoPass
  /\ locks = [x \in Projects |-> NoPull]
  /\ plans = PlansUnder(locks)
  /\ db = StatusUnder(locks)
  /\ commitStatus = [pl \in Pulls |-> [k \in CommandNames |-> NoCommitStatus]]
  /\ \E kind \in [Passes -> {"auto", "generic", "targeted"}] :
       pass = [p \in Passes |->
                 NewPass(TRUE,
                         IF kind[p] = "auto" THEN AutoTrigger ELSE CommentTrigger,
                         kind[p] = "targeted",
                         ZeroPullStatus)]

NextConc == \E p \in Passes : Step(p, OneProjectEnv)

SpecConc == InitConc /\ [][NextConc]_vars

\* C2 (as claimed): with a project locker configured, two passes of different
\* pull requests never have a planning operation in progress for the same
\* project at the same time.
C2_MutualExclusion ==
  \A p, q \in Passes :
    (projectLocker /\ PullOf(p) # PullOf(q)) =>
      {pass[p].projectCmds[j].proj : j \in pass[p].running}
        \cap {pass[q].projectCmds[j].proj : j \in pass[q].running} = {}

\* ------------------------------------------- passes over any stored status
\* the collaborators of a pass that plans project 1: the planning operation
\* and the write may fail
OneProjectFailingEnv ==
  [builds |-> {[err |-> FALSE, cmds |-> CmdList(<<<<Plan, 1>>>>, FALSE, FALSE)]},
   lockErr |-> {FALSE},
   planErr |-> BOOLEAN,
   dbErr |-> BOOLEAN,
   getErr |-> {FALSE}]

\* every pull status the store can hold
PullStatuses ==
  {ZeroPullStatus} \cup
  {[recorded |-> TRUE, Projects |-> f] :
     f \in [Projects -> {Absent, ErroredPlanStatus, PlannedPlanStatus,
                         PlannedNoChangesPlanStatus, ErroredApplyStatus, AppliedPlanStatus}]}

\* one pass on a pull whose stored status is any status earlier plans and
\* applies can have left
InitStatus ==
  /\ silenceVCSStatusNoPlans = FALSE
  /\ silenceVCSStatusNoProjects = FALSE
  /\ SilenceNoProjects = FALSE
  /\ projectLocker = TRUE
  /\ mtx = NoPass
  /\ locks = [x \in Projects |-> NoPull]
  /\ plans = PlansUnder(locks)
  /\ \E ps \in PullStatuses : db = [pl \in Pulls |-> IF pl = PullOf(1) THEN ps ELSE ZeroPullStatus]
  /\ commitStatus = [pl \in Pulls |-> [k \in CommandNames |-> NoCommitStatus]]
  /\ \E kind \in {"auto", "generic", "targeted"} :
       pass = [p \in Passes |->
                 NewPass(p = 1,
                         IF kind = "auto" THEN AutoTrigger ELSE CommentTrigger,
                         kind = "targeted",
                         db[PullOf(p)])]

NextStatus == \E p \in Passes : Step(p, OneProjectFailingEnv)

SpecStatus == InitStatus /\ [][NextStatus]_vars

\* the Apply statuses a pass has emitted since its write
ApplyReports(p) ==
  LET log == pass[p].log
  IN SelectSeq([k \in DOMAIN log |->
                  IF /\ IsStatus(log[k]) /\ log[k].kind = Apply
                     /\ \E j \in Where(log, IsUpdateDB) : j < k
                  THEN log[k] ELSE Ev("", "", "", 0, 0)],
               LAMBDA e : e.ev = "status")
NumIn(ps, statuses) == Cardinality({x \in Projects : ps.Projects[x] \in statuses})

\* C11 (as claimed): an Apply status reported from a pull status always has
\* its success count equal to the number of projects.
C11_ApplyOnlyWhenAllApplied ==
  \A p \in Passes :
    \A k \in DOMAIN ApplyReports(p) : ApplyReports(p)[k].n = ApplyReports(p)[k].m

\* C11 (amended): once a pass has reported from the pull status its write
\* returned: if a project is in errored-apply state, Apply failed was emitted
\* (with the counts, whether or not every project is applied); otherwise no
\* Apply status was emitted while the applied and planned-no-changes projects
\* are fewer than the projects, and Apply success with count total/total was
\* emitted when they are all of them.
C11_ApplyStatusRule ==
  \A p \in Passes :
    pass[p].pc = "dispatch" =>
      LET ps == pass[p].pullStatus
          total == NumIn(ps, {ErroredPlanStatus, PlannedPlanStatus, PlannedNoChangesPlanStatus,
                              ErroredApplyStatus, AppliedPlanStatus})
          success == NumIn(ps, {AppliedPlanStatus, PlannedNoChangesPlanStatus})
          reports == ApplyReports(p)
      IN IF NumIn(ps, {ErroredApplyStatus}) > 0
         THEN reports = <<Ev("status", Apply, FailedCommitStatus, success, total)>>
         ELSE IF success < total
         THEN reports = <<>>
         ELSE reports = <<Ev("status", Apply, SuccessCommitStatus, total, total)>>

\* C11 witness: a pass has reported from a status with one project applied and
\* one only planned, and emitted no Apply status
C11_Witness ==
  \E p \in Passes :
    /\ pass[p].pc = "dispatch"
    /\ NumIn(pass[p].pullStatus, {AppliedPlanStatus}) = 1
    /\ NumIn(pass[p].pullStatus, {PlannedPlanStatus}) = 1
    /\ ApplyReports(p) = <<>>

\* ------------------------------------------------- passes with no project
\* the command builder of pass p succeeded and returned no command
FoundNoProject(p) ==
  /\ Where(pass[p].log, IsBuildOk) # {}
  /\ pass[p].cmds = <<>>

IsSuccessStatus(e) == IsStatus(e) /\ e.st = SuccessCommitStatus

\* C12: with silenceVCSStatusNoProjects configured, a pass in which no project
\* is found emits no success status of any kind, whatever the other flags and
\* whether or not the comment targets a project.
C12_SilencedNoProjects ==
  \A p \in Passes :
    (silenceVCSStatusNoProjects /\ FoundNoProject(p)) =>
      Where(pass[p].log, IsSuccessStatus) = {}

\* a comment pass whose builder returned no command, with the status of
\* passes without projects not silenced
UnsilencedEmptyComment(p) ==
  /\ pass[p].trigger = CommentTrigger
  /\ FoundNoProject(p)
  /\ ~silenceVCSStatusNoProjects

IsWork(e) == e.ev \in {"tryLock", "unlockByPull", "deletePlans", "updateDB"}

StageOf(e, pendingStage, buildStage) ==
  CASE IsPending(e) -> pendingStage
    [] e.ev = "build" -> buildStage
    [] e.ev = "deletePlans" /\ e.st = "previous" -> 3
    [] e.ev = "unlockByPull" /\ e.st = "previous" -> 4
    [] e.ev = "tryLock" -> 5
    [] e.ev \in {"planStart", "planEnd"} -> 6
    [] e.ev = "unlockByPull" /\ e.st = "abort" -> 6
    [] IsCleanup(e) -> 7
    [] e.ev = "updatePull" -> 8
    [] e.ev = "updateDB" -> 9
    [] IsStatus(e) /\ ~IsPending(e) /\ e.kind = Plan -> 10
    [] IsStatus(e) /\ e.kind = Apply -> 11
    [] OTHER -> 12

\* the stages that are a single call
OnceStages == {1, 2, 3, 4, 7, 8, 9, 10, 11, 12}

Executed(p) == \E k \in DOMAIN pass[p].log : pass[p].log[k].ev = "planStart"

InStageOrder(log, pendingStage, buildStage) ==
  /\ \A j, k \in DOMAIN log :
       j < k => StageOf(log[j], pendingStage, buildStage)
                  <= StageOf(log[k], pendingStage, buildStage)
  /\ \A j, k \in DOMAIN log :
       (/\ j # k
        /\ StageOf(log[j], pendingStage, buildStage)
             = StageOf(log[k], pendingStage, buildStage))
         => StageOf(log[j], pendingStage, buildStage) \notin OnceStages

\* C14 (as claimed): every pass that reaches execution, of either trigger, set
\* the Plan status to pending before it invoked the command builder.
C14_PendingBeforeBuild ==
  \A p \in Passes :
    Executed(p) =>
      \A j, k \in DOMAIN pass[p].log :
        (IsPending(pass[p].log[j]) /\ pass[p].log[k].ev = "build") => j < k

\* C14 (amended): the calls of every pass that reaches execution are in stage
\* order, no single-call stage repeated and none before an earlier one:
\* SET-PENDING then BUILD for a comment, BUILD then SET-PENDING for an
\* autoplan, then CLEAR-STALE (deletePlans, UnlockByPull; non-targeted only),
\* all TryLock calls, the planning operations, the automerge cleanup, the
\* comment, the write, the Plan status, the Apply status, the policy-check
\* dispatch. A finished pass has built, set pending, commented and written,
\* and has reported the Plan status unless it is a comment whose write failed.
C14_StageOrder ==
  \A p \in Passes :
    Executed(p) =>
      LET log == pass[p].log
          stages == {StageOf(log[k], 1, 2) : k \in DOMAIN log}
      IN /\ IF pass[p].trigger = AutoTrigger
            THEN InStageOrder(log, 2, 1)
            ELSE InStageOrder(log, 1, 2)
         /\ {1, 2} \subseteq stages
         /\ (3 \in stages) = NonTargeted(p)
         /\ (4 \in stages) = NonTargeted(p)
         /\ pass[p].pc = "done" =>
              /\ {8, 9} \subseteq stages
              /\ (10 \in stages) =
                   (pass[p].trigger = AutoTrigger
                      \/ \E k \in DOMAIN log : log[k].ev = "updateDB" /\ log[k].st = "ok")

\* C14 witness: a finished autoplan that took two locks, planned both
\* projects, wrote and reported
C14_Witness ==
  \E p \in Passes :
    /\ pass[p].trigger = AutoTrigger
    /\ pass[p].pc = "done"
    /\ Executed(p)
    /\ Cardinality(Where(pass[p].log, IsTryLock)) = 2
    /\ Cardinality(Where(pass[p].log, IsPlanning)) = 4
    /\ Where(pass[p].log, IsSuccessStatus) # {}

\* ------------------------------------------------- the policy-check stage
\* C15: whenever the policy-check runner has been dispatched, the pull status
\* of the context is the one returned by the write of the same pass.
C15_ContextRefreshed ==
  \A p \in Passes :
    Where(pass[p].log, IsPolicyCheck) # {} =>
      pass[p].ctxPullStatus = pass[p].pullStatus

\* ------------------------------------------------------- execution modes
\* more commands than the pool has workers
MaxPlanCmds == 3

\* the builder returns one to MaxPlanCmds Plan commands, parallel-eligible or
\* not; every lock is granted and each planning operation succeeds or fails
PlansOnlyEnv ==
  [builds |-> {[err |-> FALSE, cmds |-> CmdList(ks, par, FALSE)] :
                 ks \in SeqsUpTo({<<Plan, x>> : x \in Projects}, MaxPlanCmds) \ {<<>>},
                 par \in BOOLEAN},
   lockErr |-> {FALSE},
   planErr |-> BOOLEAN,
   dbErr |-> {FALSE},
   getErr |-> {FALSE}]

\* one pass of any trigger on an instance that holds no lock and no plan
InitExec ==
  /\ silenceVCSStatusNoPlans = FALSE
  /\ silenceVCSStatusNoProjects = FALSE
  /\ SilenceNoProjects = FALSE
  /\ projectLocker = TRUE
  /\ mtx = NoPass
  /\ locks = [x \in Projects |-> NoPull]
  /\ plans = PlansUnder(locks)
  /\ db = StatusUnder(locks)
  /\ commitStatus = [pl \in Pulls |-> [k \in CommandNames |-> NoCommitStatus]]
  /\ \E kind \in {"auto", "generic", "targeted"} :
       pass = [p \in Passes |->
                 NewPass(p = 1,
                         IF kind = "auto" THEN AutoTrigger ELSE CommentTrigger,
                         kind = "targeted",
                         db[PullOf(p)])]

NextExec == \E p \in Passes : Step(p, PlansOnlyEnv)

SpecExec == InitExec /\ [][NextExec]_vars

\* the planning operation of command j of pass p ended with an error
PlanFailed(p, j) ==
  \E k \in DOMAIN pass[p].log :
    /\ pass[p].log[k].ev = "planEnd" /\ pass[p].log[k].m = j
    /\ pass[p].log[k].st = "error"
\* the project result the planning collaborator gave for command j
PlanOutcome(p, j) == ProjectResult(pass[p].projectCmds[j].proj, PlanFailed(p, j), FALSE)
NumEvents(p, ev, j) ==
  Cardinality({k \in DOMAIN pass[p].log : pass[p].log[k].ev = ev /\ pass[p].log[k].m = j})

\* C16: when every lock was acquired, the result of the execution is exactly
\* one project result per command, the one the planning collaborator returned
\* for that command, in either mode and under every interleaving: every
\* command is planned once, whatever the outcome of the others. At most
\* parallelPoolSize operations run at once, more than one only when the first
\* command is parallel-eligible; otherwise the operations run one after the
\* other and the results are in input order.
C16_ExecutionModes ==
  \A p \in Passes :
    LET cmds == pass[p].projectCmds
        res == pass[p].result.ProjectResults
        parallel == Len(cmds) > 0 /\ cmds[1].ParallelPlanEnabled
    IN /\ Cardinality(pass[p].running) <= (IF parallel THEN parallelPoolSize ELSE 1)
       /\ (HasResult(p) /\ Where(pass[p].log, IsFailedTryLock) = {}) =>
            /\ Len(res) = Len(cmds)
            /\ \A j \in DOMAIN cmds :
                 NumEvents(p, "planStart", j) = 1 /\ NumEvents(p, "planEnd", j) = 1
            /\ \A r \in {PlanOutcome(p, j) : j \in DOMAIN cmds} :
                 Cardinality({k \in DOMAIN res : res[k] = r})
                   = Cardinality({j \in DOMAIN cmds : PlanOutcome(p, j) = r})
            /\ ~parallel => res = [j \in DOMAIN cmds |-> PlanOutcome(p, j)]

\* C16 witness: three parallel commands were planned, the first one failed and
\* another command's result came first
C16_Witness ==
  \E p \in Passes :
    /\ HasResult(p)
    /\ Len(pass[p].projectCmds) = MaxPlanCmds
    /\ pass[p].projectCmds[1].ParallelPlanEnabled
    /\ PlanFailed(p, 1)
    /\ ~PlanFailed(p, 2)
    /\ pass[p].result.ProjectResults[1] # PlanOutcome(p, 1)

\* ------------------------------------------------------------ partitioning
\* the position in cmds of its k-th command of the given kind
KthOfKind(cmds, kind, k) ==
  CHOOSE j \in DOMAIN cmds :
    /\ cmds[j].CommandName = kind
    /\ NumKind(SubSeq(cmds, 1, j), {kind}) = k

\* C17: after a successful build the Plan list is exactly the input commands
\* of kind Plan and the PolicyCheck list exactly those of kind PolicyCheck,
\* each in input order; a command of another kind is in neither list, is never
\* locked, planned or policy-checked, and does not keep the Plan commands from
\* being planned.
C17_Partition ==
  \A p \in Passes :
    LET cmds == pass[p].cmds
        projectCmds == pass[p].projectCmds
        policyCheckCmds == pass[p].policyCheckCmds
        log == pass[p].log
    IN Where(log, IsBuildOk) # {} =>
         /\ Len(projectCmds) = NumKind(cmds, {Plan})
         /\ Len(policyCheckCmds) = NumKind(cmds, {PolicyCheck})
         /\ \A k \in DOMAIN projectCmds : projectCmds[k] = cmds[KthOfKind(cmds, Plan, k)]
         /\ \A k \in DOMAIN policyCheckCmds :
              policyCheckCmds[k] = cmds[KthOfKind(cmds, PolicyCheck, k)]
         /\ \A k \in Where(log, IsTryLock) \cup Where(log, IsPlanning) :
              /\ log[k].m \in 1..NumKind(cmds, {Plan})
              /\ log[k].n = cmds[KthOfKind(cmds, Plan, log[k].m)].proj
         /\ \A k \in Where(log, IsPolicyCheck) : log[k].n = NumKind(cmds, {PolicyCheck})
         /\ (HasResult(p) /\ Where(log, IsFailedTryLock) = {}) =>
              \A j \in 1..NumKind(cmds, {Plan}) : NumEvents(p, "planEnd", j) = 1

\* C17 witness: the builder returned a command of another kind and a Plan
\* command, and the Plan command was planned
C17_Witness ==
  \E p \in Passes :
    /\ HasResult(p)
    /\ NumKind(pass[p].cmds, {Apply}) = 1
    /\ NumKind(pass[p].cmds, {Plan}) = 1
    /\ NumEvents(p, "planEnd", 1) = 1

\* ------------------------------------------------------ the pending status
IsPlanOutcome(e) ==
  IsStatus(e) /\ e.kind = Plan /\ e.st \in {SuccessCommitStatus, FailedCommitStatus}

\* C18: a finished pass that set the Plan status to pending has set it to
\* success or failed afterwards.
C18_PendingResolved ==
  \A p \in Passes :
    pass[p].pc = "done" =>
      \A k \in Where(pass[p].log, IsPending) :
        \E j \in Where(pass[p].log, IsPlanOutcome) : j > k

\* ---------------------------------------- concurrent passes of one pull
\* every pass plans project 1; the planning operation succeeds or fails, the
\* locks are granted and the writes succeed
OnePullEnv ==
  [builds |-> {[err |-> FALSE, cmds |-> CmdList(<<<<Plan, 1>>>>, FALSE, FALSE)]},
   lockErr |-> {FALSE},
   planErr |-> BOOLEAN,
   dbErr |-> {FALSE},
   getErr |-> {FALSE}]

\* the passes of one pull request
PassesOf(pull) == {p \in Passes : PullOf(p) = pull}

\* the passes of pull 1 are under way at once on a fresh instance
InitOnePull ==
  /\ silenceVCSStatusNoPlans = FALSE
  /\ silenceVCSStatusNoProjects = FALSE
  /\ SilenceNoProjects = FALSE
  /\ projectLocker = TRUE
  /\ mtx = NoPass
  /\ locks = [x \in Projects |-> NoPull]
  /\ plans = PlansUnder(locks)
  /\ db = StatusUnder(locks)
  /\ commitStatus = [pl \in Pulls |-> [k \in CommandNames |-> NoCommitStatus]]
  /\ \E kind \in [Passes -> {"auto", "generic", "targeted"}] :
       pass = [p \in Passes |->
                 NewPass(p \in PassesOf(1),
                         IF kind[p] = "auto" THEN AutoTrigger ELSE CommentTrigger,
                         kind[p] = "targeted",
                         ZeroPullStatus)]

NextOnePull == \E p \in Passes : Step(p, OnePullEnv)

SpecOnePull == InitOnePull /\ [][NextOnePull]_vars

\* C19: once the concurrent passes of a pull have all ended, the Plan status
\* of the pull (status and counts) is the one derived from the stored pull
\* status.
C19_StatusAgreesWithStore ==
  (\A p \in PassesOf(1) : pass[p].pc = "done") =>
    LET ps == db[1]
        total == NumIn(ps, {ErroredPlanStatus, PlannedPlanStatus, PlannedNoChangesPlanStatus,
                            ErroredApplyStatus, AppliedPlanStatus})
        errored == NumIn(ps, {ErroredPlanStatus})
    IN commitStatus[1][Plan] =
         [st |-> IF errored > 0 THEN FailedCommitStatus ELSE SuccessCommitStatus,
          n |-> total - errored, m |-> total]

\* ------------------------------------------------- plans and their locks
\* C20: with a project locker configured, once the passes have ended every
\* project of which a pull still has a plan on disk is locked by that pull.
C20_PlansStayLocked ==
  (projectLocker /\ \A p \in Passes : pass[p].pc \in {"done", "idle"}) =>
    \A pull \in Pulls : \A x \in plans[pull] : locks[x] = pull
====
